---- MODULE Spec2Model ----
(***************************************************************************)
(* Memora: the capture-and-reconciliation pipeline.                        *)
(*                                                                         *)
(*   JournalInput    (src/src/components/JournalInput.tsx)                 *)
(*       the Capture Coordinator: recording, transcription, submit.        *)
(*   InsightsDisplay (src/README.md, lines 33-465)                         *)
(*       the Insight Synchronizer: reload, toggle, edit, delete.           *)
(*                                                                         *)
(* JavaScript runs one task at a time: every action below is one task (an  *)
(* event handler, or the continuation of an async function after an await  *)
(* on a remote call), run to its next suspension point.                    *)
(***************************************************************************)
EXTENDS Integers, Sequences, FiniteSets, TLC

(***************************************************************************)
(* Bounds of the model.                                                    *)
(***************************************************************************)
\* recording sessions (calls of startRecording) in one run
MaxSessions == 2
\* submits that pass validation in one run
MaxSubmits == 2
\* operations of the user on the insight panels that start a remote call
\* (toggle, save edit, delete), and refresh signals, in one run
MaxOps == 2
\* remote calls of the insight panels that fail in one run
MaxFailures == 1
\* the user starts no operation on the panels while this many of their
\* remote calls (reloads, updates, deletes) are in flight
MaxInFlight == 2

(***************************************************************************)
(* Text.  A text is a sequence of characters; "a" and "b" stand for any    *)
(* non-whitespace character, " " and "\n" are whitespace.                  *)
(***************************************************************************)
Whitespace == {" ", "\n"}

\* what the user can type into the textarea (onChange replaces the buffer)
TypedTexts == {<<>>, <<" ">>, <<"a">>}

\* data.text of a transcription response; <<>> is the empty string
Transcripts == {<<>>, <<"b">>}

\* the blank-line separator of the template literal `${prev}\n\n${data.text}`
Separator == <<"\n", "\n">>

RECURSIVE TrimStart(_)
TrimStart(s) ==
    IF s = <<>> THEN <<>>
    ELSE IF Head(s) \in Whitespace THEN TrimStart(Tail(s))
    ELSE s

RECURSIVE TrimEnd(_)
TrimEnd(s) ==
    IF s = <<>> THEN <<>>
    ELSE IF s[Len(s)] \in Whitespace THEN TrimEnd(SubSeq(s, 1, Len(s) - 1))
    ELSE s

\* String.prototype.trim
Trim(s) == TrimEnd(TrimStart(s))

\* a JavaScript string is truthy iff it is not empty
Truthy(s) == s # <<>>

\* the guard of handleSubmit's validation: !content.trim()
IsBlankUntrimmed(c) == ~Truthy(c)
IsBlank(c) == ~Truthy(Trim(c))

\* the updater of setContent in reader.onloadend
AppendOverwrite(prev, text) == text
AppendTranscript(prev, text) ==
    IF Truthy(prev) THEN prev \o Separator \o text ELSE text

(***************************************************************************)
(* The persistent store and the authentication context (external).         *)
(***************************************************************************)
Kinds == {"tasks", "calendar_events", "notes", "health_mentions"}

NoUser == "none"
Users == {"u1", "u2"}

\* a query of fetchData that has not resolved, one that resolved with an
\* error (data is null), and one that resolved with rows
Pending == [st |-> "pending", rows |-> <<>>]
Failed == [st |-> "error", rows |-> <<>>]
Rows(rows) == [st |-> "ok", rows |-> rows]

\* a call of fetchData suspended at supabase.auth.getUser()
NewFetch(id) == [id |-> id, pc |-> "getUser", user |-> NoUser,
                 res |-> [k \in Kinds |-> Pending]]

\* .limit(10) of the notes and health_mentions queries
QueryLimit == 10

\* A row of a table.  Ids are unique over all tables (uuids); within a table
\* a larger id is a later created_at, and for calendar_events a later
\* event_date.  text is the row's editable column: title for tasks and
\* calendar_events, content for notes and health_mentions.
Row(id, owner, text, completed) ==
    [id |-> id, owner |-> owner, text |-> text, completed |-> completed]

\* the tables before the first operation
InitialStore ==
    [k \in Kinds |->
        CASE k = "tasks" -> {Row(1, "u1", "x", FALSE), Row(2, "u1", "x", TRUE),
                             Row(6, "u2", "x", FALSE)}
          [] k = "calendar_events" -> {Row(3, "u1", "x", FALSE)}
          [] k = "notes" -> {Row(4, "u1", "x", FALSE)}
          [] k = "health_mentions" -> {Row(5, "u1", "x", FALSE)}]

\* the ids of tasks
TaskIds == {r.id : r \in InitialStore["tasks"]}

\* what the user can type into the inline edit field
EditTexts == {"y"}

\* .order(column, { ascending: true }) and { ascending: false }
RECURSIVE SortAscending(_)
SortAscending(S) ==
    IF S = {} THEN <<>>
    ELSE LET m == CHOOSE r \in S : \A q \in S : r.id <= q.id
         IN <<m>> \o SortAscending(S \ {m})

RECURSIVE SortDescending(_)
SortDescending(S) ==
    IF S = {} THEN <<>>
    ELSE LET m == CHOOSE r \in S : \A q \in S : r.id >= q.id
         IN <<m>> \o SortDescending(S \ {m})

\* .limit(n)
Limit(seq, n) == IF Len(seq) <= n THEN seq ELSE SubSeq(seq, 1, n)

\* the select of fetchData on table k for user u, run on the tables `tables`
Query(tables, k, u) ==
    LET mine == {r \in tables[k] : r.owner = u} IN
    CASE k = "tasks" -> SortDescending(mine)
      [] k = "calendar_events" -> SortAscending(mine)
      [] k = "notes" -> Limit(SortDescending(mine), QueryLimit)
      [] k = "health_mentions" -> Limit(SortDescending(mine), QueryLimit)

\* the notifications of InsightsDisplay
ToastUpdated == "Updated successfully"
ToastUpdateFailed == "Failed to update"
ToastDeleted == "Deleted successfully"
ToastDeleteFailed == "Failed to delete"

(***************************************************************************)
(* State.                                                                  *)
(***************************************************************************)
VARIABLES
    \* ---- JournalInput
    content,            \* useState(""): the text buffer
    processing,         \* useState(false)
    isRecording,        \* useState(false)
    isTranscribing,     \* useState(false)
    mediaRecorderRef,   \* useRef(null): 0 is null, else the session whose recorder it holds
    phase,              \* per call of startRecording: how far it has come
    streamLive,         \* sessions whose MediaStream tracks are live (the device is held)
    stopCount,          \* per session: how often its stream's tracks were stopped
    submits,            \* the calls of handleSubmit that are suspended at an await
    nSubmits,           \* calls of handleSubmit that passed validation
    extractSent,        \* requests sent to process-journal
    extractAccepted,    \* requests process-journal answered without error
    toast,              \* the notification shown last (sonner / use-toast)
    \* ---- the authentication context
    authUser,           \* what supabase.auth.getUser() resolves to
    \* ---- the parent page
    refreshTrigger,     \* the refresh signal handed to InsightsDisplay
    \* ---- InsightsDisplay
    fetchCalls,         \* calls of fetchData
    fetches,            \* the calls of fetchData that are suspended at an await
    shown,              \* useState([]) x 4: tasks, events, notes, health
    editingId,          \* useState(null): 0 is null
    editingType,        \* useState(null): "null" is null
    editValue,          \* useState("")
    replaced,           \* history: the latest startEdit found a cursor set and replaced it
    calls,              \* update and delete calls in flight, each with its closure
    nOps,               \* operations started on the panels that made a remote call
    toggles,            \* per task id, the calls of toggleTask for it
    nFailures,          \* remote calls of the panels that failed
    syncToast,          \* the notification InsightsDisplay showed last
    \* ---- the persistent store
    store               \* per table, its rows

captureVars ==
    <<content, processing, isRecording, isTranscribing, mediaRecorderRef, phase,
      streamLive, stopCount, submits, nSubmits, extractSent, extractAccepted, toast>>
signalVars == <<refreshTrigger, fetchCalls, fetches>>
syncVars ==
    <<shown, editingId, editingType, editValue, replaced, calls, nOps, toggles, nFailures, syncToast,
      store>>
vars == <<captureVars, authUser, signalVars, syncVars>>

Sessions == 1..MaxSessions

Phases ==
    {"unused",      \* startRecording not called for this session
     "requested",   \* getUserMedia pending
     "recording",   \* mediaRecorder.start() done
     "stopping",    \* mediaRecorder.stop() called, the stop event not yet delivered
     "reading",     \* onstop ran: FileReader loading the blob
     "invoking",    \* transcribe-audio request in flight
     "closed",      \* nothing of the session is pending: getUserMedia rejected, the
                    \* try block of startRecording threw, or transcribe-audio resolved
     "rejected"}    \* the promise of reader.onloadend was rejected and nothing handles
                    \* it (an unhandledrejection event of the window)

\* the notifications of JournalInput
NoToast == "none"
ToastRecordingStarted == "Recording started"
ToastStartFailed == "Failed to start recording. Please check microphone permissions."
ToastTranscribed == "Transcription complete!"
ToastValidation == "Please write something in your journal"
ToastSignIn == "Please sign in to continue"
ToastProcessed == "Journal processed! Your insights are ready."
ToastProcessFailed == "Failed to process journal entry"
\* the catch block of transcribeAudio
ToastTranscribeFailed == "Failed to transcribe audio"

\* useEffect(() => { fetchData(); }, [refreshTrigger]) runs once on mount
Init ==
    /\ content = <<>>
    /\ processing = FALSE
    /\ isRecording = FALSE
    /\ isTranscribing = FALSE
    /\ mediaRecorderRef = 0
    /\ phase = [s \in Sessions |-> "unused"]
    /\ streamLive = {}
    /\ stopCount = [s \in Sessions |-> 0]
    /\ submits = {}
    /\ nSubmits = 0
    /\ extractSent = 0
    /\ extractAccepted = 0
    /\ toast = NoToast
    /\ authUser \in Users \cup {NoUser}
    /\ refreshTrigger = 0
    /\ fetchCalls = 1
    /\ fetches = {NewFetch(1)}
    /\ shown = [k \in Kinds |-> <<>>]
    /\ editingId = 0
    /\ editingType = "null"
    /\ editValue = ""
    /\ replaced = FALSE
    /\ calls = {}
    /\ nOps = 0
    /\ toggles = [id \in TaskIds |-> 0]
    /\ nFailures = 0
    /\ syncToast = NoToast
    /\ store = InitialStore

(***************************************************************************)
(* The authentication context: the user signs in or out (external).        *)
(***************************************************************************)
AuthChange ==
    /\ \E u \in Users \cup {NoUser} : u # authUser /\ authUser' = u
    /\ UNCHANGED <<captureVars, signalVars, syncVars>>

(***************************************************************************)
(* InsightsDisplay: the start of fetchData, up to its first await.         *)
(***************************************************************************)
FetchData ==
    /\ fetchCalls' = fetchCalls + 1
    /\ fetches' = fetches \cup {NewFetch(fetchCalls + 1)}

(***************************************************************************)
(* The parent page: onProcessed increments the refresh signal; the change  *)
(* re-runs InsightsDisplay's effect, which calls fetchData.                *)
(***************************************************************************)
UseEffectRefresh == FetchData

OnProcessed ==
    /\ refreshTrigger' = refreshTrigger + 1
    /\ UseEffectRefresh

(***************************************************************************)
(* JournalInput: the two buttons.                                          *)
(***************************************************************************)
\* <Button onClick={isRecording ? stopRecording : startRecording}
\*         disabled={isTranscribing || processing}>
RecordButtonEnabled == ~(isTranscribing \/ processing)

\* <Button type="submit" disabled={processing || isRecording || isTranscribing}>
SubmitButtonNoProcessingGuard == ~(isRecording \/ isTranscribing)
SubmitButtonEnabled == ~(processing \/ isRecording \/ isTranscribing)

\* <Textarea onChange={(e) => setContent(e.target.value)}>: never disabled.
\* A call of handleSubmit in flight remembers that the buffer was edited.
TypeText ==
    /\ \E t \in TypedTexts : t # content /\ content' = t
    /\ submits' = {[p EXCEPT !.typed = TRUE] : p \in submits}
    /\ UNCHANGED <<processing, isRecording, isTranscribing, mediaRecorderRef, phase,
                   streamLive, stopCount, nSubmits, extractSent, extractAccepted, toast>>
    /\ UNCHANGED <<authUser, signalVars, syncVars>>

(***************************************************************************)
(* JournalInput: startRecording, stopRecording, transcribeAudio.           *)
(***************************************************************************)
UsedSessions == {s \in Sessions : phase[s] # "unused"}

\* click on Record: startRecording runs up to `await getUserMedia`
StartRecording ==
    /\ RecordButtonEnabled
    /\ ~isRecording
    /\ Cardinality(UsedSessions) < MaxSessions
    /\ phase' = [phase EXCEPT ![Cardinality(UsedSessions) + 1] = "requested"]
    /\ UNCHANGED <<content, processing, isRecording, isTranscribing, mediaRecorderRef,
                   streamLive, stopCount, submits, nSubmits, extractSent, extractAccepted,
                   toast>>
    /\ UNCHANGED <<authUser, signalVars, syncVars>>

\* getUserMedia resolves with a stream; the rest of the try block runs
GetUserMediaGranted(s) ==
    /\ phase[s] = "requested"
    /\ streamLive' = streamLive \cup {s}
    /\ \/ \* new MediaRecorder(stream) and mediaRecorder.start() succeed
          /\ mediaRecorderRef' = s
          /\ phase' = [phase EXCEPT ![s] = "recording"]
          /\ isRecording' = TRUE
          /\ toast' = ToastRecordingStarted
       \/ \* one of them throws: the catch block reports it, nothing stops the stream
          /\ phase' = [phase EXCEPT ![s] = "closed"]
          /\ toast' = ToastStartFailed
          /\ UNCHANGED <<mediaRecorderRef, isRecording>>
    /\ UNCHANGED <<content, processing, isTranscribing, stopCount, submits, nSubmits,
                   extractSent, extractAccepted>>
    /\ UNCHANGED <<authUser, signalVars, syncVars>>

\* getUserMedia rejects: the catch block reports it
GetUserMediaDenied(s) ==
    /\ phase[s] = "requested"
    /\ phase' = [phase EXCEPT ![s] = "closed"]
    /\ toast' = ToastStartFailed
    /\ UNCHANGED <<content, processing, isRecording, isTranscribing, mediaRecorderRef,
                   streamLive, stopCount, submits, nSubmits, extractSent, extractAccepted>>
    /\ UNCHANGED <<authUser, signalVars, syncVars>>

\* click on Stop Recording
StopRecording ==
    /\ RecordButtonEnabled
    /\ isRecording
    /\ IF mediaRecorderRef # 0
       THEN /\ phase' = [phase EXCEPT ![mediaRecorderRef] = "stopping"]
            /\ isRecording' = FALSE
       ELSE UNCHANGED <<phase, isRecording>>
    /\ UNCHANGED <<content, processing, isTranscribing, mediaRecorderRef,
                   streamLive, stopCount, submits, nSubmits, extractSent, extractAccepted,
                   toast>>
    /\ UNCHANGED <<authUser, signalVars, syncVars>>

\* mediaRecorder.onstop: the blob is built and transcribeAudio(blob) is called.
\* transcribeAudio awaits nothing: it sets isTranscribing, starts the
\* FileReader, assigns reader.onloadend, and its finally block resets
\* isTranscribing, all in the same task.  After `await transcribeAudio(...)`
\* the tracks of the stream are stopped.
OnStop(s) ==
    /\ phase[s] = "stopping"
    /\ phase' = [phase EXCEPT ![s] = "reading"]
    /\ isTranscribing' = FALSE
    /\ streamLive' = streamLive \ {s}
    /\ stopCount' = [stopCount EXCEPT ![s] = @ + 1]
    /\ UNCHANGED <<content, processing, isRecording, mediaRecorderRef, submits, nSubmits,
                   extractSent, extractAccepted, toast>>
    /\ UNCHANGED <<authUser, signalVars, syncVars>>

\* reader.onloadend, up to `await supabase.functions.invoke("transcribe-audio")`
ReaderLoadEnd(s) ==
    /\ phase[s] = "reading"
    /\ phase' = [phase EXCEPT ![s] = "invoking"]
    /\ UNCHANGED <<content, processing, isRecording, isTranscribing, mediaRecorderRef,
                   streamLive, stopCount, submits, nSubmits, extractSent, extractAccepted,
                   toast>>
    /\ UNCHANGED <<authUser, signalVars, syncVars>>

\* transcribe-audio resolves without error, data.text = text
TranscribeResolved(s, text) ==
    /\ phase[s] = "invoking"
    /\ phase' = [phase EXCEPT ![s] = "closed"]
    /\ IF Truthy(text)
       THEN /\ content' = AppendTranscript(content, text)
            /\ toast' = ToastTranscribed
       ELSE UNCHANGED <<content, toast>>
    /\ UNCHANGED <<processing, isRecording, isTranscribing, mediaRecorderRef,
                   streamLive, stopCount, submits, nSubmits, extractSent, extractAccepted>>
    /\ UNCHANGED <<authUser, signalVars, syncVars>>

\* transcribe-audio resolves with an error: `throw error` inside the async
\* onloadend callback.  The try block of transcribeAudio was left when
\* onloadend was assigned, and the FileReader drops the promise the callback
\* returns: the catch block does not run and the rejection is unhandled.
TranscribeFailed(s) ==
    /\ phase[s] = "invoking"
    /\ phase' = [phase EXCEPT ![s] = "rejected"]
    /\ UNCHANGED <<content, processing, isRecording, isTranscribing, mediaRecorderRef,
                   streamLive, stopCount, submits, nSubmits, extractSent, extractAccepted,
                   toast>>
    /\ UNCHANGED <<authUser, signalVars, syncVars>>

(***************************************************************************)
(* JournalInput: handleSubmit.                                             *)
(***************************************************************************)
\* the form is submitted: handleSubmit runs up to `await supabase.auth.getUser()`
HandleSubmit ==
    /\ SubmitButtonEnabled
    /\ IF IsBlank(content)
       THEN /\ toast' = ToastValidation
            /\ UNCHANGED <<processing, submits, nSubmits>>
       ELSE /\ nSubmits < MaxSubmits
            /\ processing' = TRUE
            /\ nSubmits' = nSubmits + 1
            /\ submits' = submits \cup
                 {[id |-> nSubmits + 1, pc |-> "getUser", text |-> content, typed |-> FALSE]}
            /\ UNCHANGED toast
    /\ UNCHANGED <<content, isRecording, isTranscribing, mediaRecorderRef, phase,
                   streamLive, stopCount, extractSent, extractAccepted>>
    /\ UNCHANGED <<authUser, signalVars, syncVars>>

\* getUser resolves
SubmitGetUser(p) ==
    /\ p \in submits
    /\ p.pc = "getUser"
    /\ IF authUser = NoUser
       THEN \* toast, return; the finally block runs
            /\ submits' = submits \ {p}
            /\ processing' = FALSE
            /\ toast' = ToastSignIn
            /\ UNCHANGED extractSent
       ELSE \* invoke("process-journal", {journalContent: content, userId: user.id})
            /\ submits' = (submits \ {p}) \cup {[p EXCEPT !.pc = "invoke"]}
            /\ extractSent' = extractSent + 1
            /\ UNCHANGED <<processing, toast>>
    /\ UNCHANGED <<content, isRecording, isTranscribing, mediaRecorderRef, phase,
                   streamLive, stopCount, nSubmits, extractAccepted>>
    /\ UNCHANGED <<authUser, signalVars, syncVars>>

\* setContent("") on success
SubmitClearKeep(c) == c
SubmitClear(c) == <<>>

\* onProcessed() on success
SubmitSignalMissing == UNCHANGED signalVars
SubmitSignal == OnProcessed

\* process-journal resolves without error
SubmitAccepted(p) ==
    /\ p \in submits
    /\ p.pc = "invoke"
    /\ submits' = submits \ {p}
    /\ extractAccepted' = extractAccepted + 1
    /\ toast' = ToastProcessed
    /\ content' = SubmitClear(content)
    /\ SubmitSignal
    /\ processing' = FALSE
    /\ UNCHANGED <<isRecording, isTranscribing, mediaRecorderRef, phase,
                   streamLive, stopCount, nSubmits, extractSent>>
    /\ UNCHANGED <<authUser, syncVars>>

\* process-journal resolves with an error: throw, catch, finally
SubmitFailedNoFinally(p) ==
    /\ p \in submits
    /\ p.pc = "invoke"
    /\ submits' = submits \ {p}
    /\ toast' = ToastProcessFailed
    /\ UNCHANGED <<content, processing, isRecording, isTranscribing, mediaRecorderRef, phase,
                   streamLive, stopCount, nSubmits, extractSent, extractAccepted>>
    /\ UNCHANGED <<authUser, signalVars, syncVars>>
SubmitFailed(p) ==
    /\ p \in submits
    /\ p.pc = "invoke"
    /\ submits' = submits \ {p}
    /\ toast' = ToastProcessFailed
    /\ processing' = FALSE
    /\ UNCHANGED <<content, isRecording, isTranscribing, mediaRecorderRef, phase,
                   streamLive, stopCount, nSubmits, extractSent, extractAccepted>>
    /\ UNCHANGED <<authUser, signalVars, syncVars>>

NextCapture ==
    \/ AuthChange
    \/ TypeText
    \/ StartRecording
    \/ \E s \in Sessions : GetUserMediaGranted(s)
    \/ \E s \in Sessions : GetUserMediaDenied(s)
    \/ StopRecording
    \/ \E s \in Sessions : OnStop(s)
    \/ \E s \in Sessions : ReaderLoadEnd(s)
    \/ \E s \in Sessions, text \in Transcripts : TranscribeResolved(s, text)
    \/ \E s \in Sessions : TranscribeFailed(s)
    \/ HandleSubmit
    \/ \E p \in submits : SubmitGetUser(p)
    \/ \E p \in submits : SubmitAccepted(p)
    \/ \E p \in submits : SubmitFailed(p)

SpecCapture == Init /\ [][NextCapture]_vars

\* Every remote call and every event of the browser that is pending is
\* delivered: getUser and process-journal resolve, the stop event and the
\* loadend event fire, transcribe-audio resolves.  What the user does, and
\* when, is not constrained.
RemoteCallsResolve ==
    /\ WF_vars(\E p \in submits : SubmitGetUser(p))
    /\ WF_vars(\E p \in submits : SubmitAccepted(p) \/ SubmitFailed(p))
    /\ \A s \in Sessions :
          /\ WF_vars(OnStop(s))
          /\ WF_vars(ReaderLoadEnd(s))
          /\ WF_vars(TranscribeFailed(s) \/ \E text \in Transcripts : TranscribeResolved(s, text))

\* The coordinator used by dictation: the user records, stops and submits
\* and does not type, and stays signed in, or signed out, as at the start.
NextDictation ==
    \/ StartRecording
    \/ \E s \in Sessions : GetUserMediaGranted(s)
    \/ \E s \in Sessions : GetUserMediaDenied(s)
    \/ StopRecording
    \/ \E s \in Sessions : OnStop(s)
    \/ \E s \in Sessions : ReaderLoadEnd(s)
    \/ \E s \in Sessions, text \in Transcripts : TranscribeResolved(s, text)
    \/ \E s \in Sessions : TranscribeFailed(s)
    \/ HandleSubmit
    \/ \E p \in submits : SubmitGetUser(p)
    \/ \E p \in submits : SubmitAccepted(p)
    \/ \E p \in submits : SubmitFailed(p)

SpecDictationLive == Init /\ [][NextDictation]_vars /\ RemoteCallsResolve

(***************************************************************************)
(* InsightsDisplay: fetchData.                                             *)
(*                                                                         *)
(* The four selects of one call are sent together; the store answers them  *)
(* from its rows at one moment (FetchServe), and the answers reach the     *)
(* component later (FetchApply): rows may change in between.               *)
(***************************************************************************)
\* getUser resolves: `if (!user) return`, else the four selects are sent
FetchGetUser(f) ==
    /\ f \in fetches
    /\ f.pc = "getUser"
    /\ fetches' = IF authUser = NoUser
                  THEN fetches \ {f}
                  ELSE (fetches \ {f}) \cup {[f EXCEPT !.pc = "querying", !.user = authUser]}
    /\ UNCHANGED <<captureVars, authUser, refreshTrigger, fetchCalls, syncVars>>

\* the store answers the four selects; each one may fail on its own
FetchServe(f) ==
    /\ f \in fetches
    /\ f.pc = "querying"
    /\ \E failing \in SUBSET Kinds :
          /\ nFailures + Cardinality(failing) <= MaxFailures
          /\ nFailures' = nFailures + Cardinality(failing)
          /\ fetches' = (fetches \ {f}) \cup
                {[f EXCEPT !.pc = "served",
                           !.res = [k \in Kinds |->
                                       IF k \in failing THEN Failed
                                       ELSE Rows(Query(store, k, f.user))]]}
    /\ UNCHANGED <<captureVars, authUser, refreshTrigger, fetchCalls>>
    /\ UNCHANGED <<shown, editingId, editingType, editValue, replaced, calls, nOps, toggles, syncToast, store>>

\* Promise.all resolves: `if (xData.data) setX(xData.data)` for each table
FetchAppliedAllOrNothing(f) ==
    IF \A k \in Kinds : f.res[k].st = "ok" THEN [k \in Kinds |-> f.res[k].rows] ELSE shown
FetchApplied(f) == [k \in Kinds |-> IF f.res[k].st = "ok" THEN f.res[k].rows ELSE shown[k]]

FetchApply(f) ==
    /\ f \in fetches
    /\ f.pc = "served"
    /\ shown' = FetchApplied(f)
    /\ fetches' = fetches \ {f}
    /\ UNCHANGED <<captureVars, authUser, refreshTrigger, fetchCalls>>
    /\ UNCHANGED <<editingId, editingType, editValue, replaced, calls, nOps, toggles, nFailures, syncToast, store>>

(***************************************************************************)
(* InsightsDisplay: the rows on screen and their controls.                 *)
(***************************************************************************)
ShownRows(k) == {shown[k][i] : i \in 1..Len(shown[k])}

\* the row with the inline edit field, Save and Cancel:
\* editingId === row.id && editingType === "<table>"
EditFieldShown ==
    /\ editingType \in Kinds
    /\ \E r \in ShownRows(editingType) : r.id = editingId

\* the user starts another operation
InFlight == Cardinality(fetches) + Cardinality(calls)
MayStart ==
    /\ nOps < MaxOps
    /\ InFlight < MaxInFlight

\* the column saveEdit writes the buffer to, by editingType
TextColumnTitle(k) == "title"
TextColumn(k) == IF k \in {"tasks", "calendar_events"} THEN "title" ELSE "content"

\* an update or delete in flight: its table, the id of its .eq("id", ...)
\* filter, the column it sets and the value
Call(n, op, k, id, text, completed) ==
    [n |-> n, op |-> op, kind |-> k, id |-> id, text |-> text, completed |-> completed,
     column |-> CASE op = "save" -> TextColumn(k)
                  [] op = "toggle" -> "completed"
                  [] OTHER -> "none"]

\* the Checkbox of a task on screen: toggleTask(task.id, task.completed) runs
\* up to `await supabase.from("tasks").update({ completed: !completed })`
ToggleTask(r) ==
    /\ r \in ShownRows("tasks")
    /\ MayStart
    /\ calls' = calls \cup {Call(nOps + 1, "toggle", "tasks", r.id, "", ~r.completed)}
    /\ nOps' = nOps + 1
    /\ toggles' = [toggles EXCEPT ![r.id] = @ + 1]
    /\ UNCHANGED <<captureVars, authUser, signalVars>>
    /\ UNCHANGED <<shown, editingId, editingType, editValue, replaced, nFailures, syncToast, store>>

\* the currentValue argument of startEdit: the title or content of the row as
\* it is rendered
CurrentValueKept(r) == editValue
CurrentValue(r) == r.text

\* the Edit button of a row on screen (rendered when editingId !== row.id)
StartEdit(k, r) ==
    /\ r \in ShownRows(k)
    /\ editingId # r.id
    /\ editingId' = r.id
    /\ editingType' = k
    /\ editValue' = CurrentValue(r)
    /\ replaced' = (editingId # 0)
    /\ UNCHANGED <<captureVars, authUser, signalVars>>
    /\ UNCHANGED <<shown, calls, nOps, toggles, nFailures, syncToast, store>>

\* the inline edit field: onChange={(e) => setEditValue(e.target.value)}
EditType(v) ==
    /\ EditFieldShown
    /\ v # editValue
    /\ editValue' = v
    /\ UNCHANGED <<captureVars, authUser, signalVars>>
    /\ UNCHANGED <<shown, editingId, editingType, replaced, calls, nOps, toggles, nFailures, syncToast,
                   store>>

\* cancelEdit
ClearCursorIdOnly ==
    /\ editingId' = 0
    /\ UNCHANGED <<editingType, editValue>>
    /\ replaced' = FALSE
ClearCursor ==
    /\ editingId' = 0
    /\ editingType' = "null"
    /\ editValue' = ""
    /\ replaced' = FALSE

\* the Cancel button of the row being edited
CancelEdit ==
    /\ EditFieldShown
    /\ ClearCursor
    /\ UNCHANGED <<captureVars, authUser, signalVars>>
    /\ UNCHANGED <<shown, calls, nOps, toggles, nFailures, syncToast, store>>

\* the Save button of the row being edited: saveEdit runs up to the await of
\* the update of the table named by editingType
SaveEdit ==
    /\ EditFieldShown
    /\ editingId # 0 /\ editingType # "null"
    /\ MayStart
    /\ calls' = calls \cup {Call(nOps + 1, "save", editingType, editingId, editValue, FALSE)}
    /\ nOps' = nOps + 1
    /\ UNCHANGED <<captureVars, authUser, signalVars>>
    /\ UNCHANGED <<shown, editingId, editingType, editValue, replaced, toggles, nFailures, syncToast,
                   store>>

\* the Delete button of a row on screen (rendered when editingId !== row.id):
\* deleteItem runs up to the await of the delete
DeleteItem(k, r) ==
    /\ r \in ShownRows(k)
    /\ editingId # r.id
    /\ MayStart
    /\ calls' = calls \cup {Call(nOps + 1, "delete", k, r.id, "", FALSE)}
    /\ nOps' = nOps + 1
    /\ UNCHANGED <<captureVars, authUser, signalVars>>
    /\ UNCHANGED <<shown, editingId, editingType, editValue, replaced, toggles, nFailures, syncToast,
                   store>>

(***************************************************************************)
(* The store runs an update or delete and its answer reaches the           *)
(* component: the rest of the handler runs.                                *)
(***************************************************************************)
\* .update({ completed }).eq("id", id), .update({ title | content }).eq("id", id)
SetCompleted(k, id, completed) ==
    [store EXCEPT ![k] = {IF r.id = id THEN [r EXCEPT !.completed = completed] ELSE r : r \in @}]
SetText(k, id, text) ==
    [store EXCEPT ![k] = {IF r.id = id THEN [r EXCEPT !.text = text] ELSE r : r \in @}]
\* .delete().eq("id", id)
DeleteRowUnfiltered(k, id) ==
    [store EXCEPT ![k] = {}]
DeleteRow(k, id) ==
    [store EXCEPT ![k] = {r \in @ : r.id # id}]

\* toggleTask after the await: the result is not looked at, fetchData()
ToggleResolved(c) ==
    /\ c \in calls
    /\ c.op = "toggle"
    /\ calls' = calls \ {c}
    /\ \/ /\ store' = SetCompleted(c.kind, c.id, c.completed)
          /\ UNCHANGED nFailures
       \/ /\ nFailures < MaxFailures
          /\ nFailures' = nFailures + 1
          /\ UNCHANGED store
    /\ FetchData
    /\ UNCHANGED <<captureVars, authUser, refreshTrigger>>
    /\ UNCHANGED <<shown, editingId, editingType, editValue, replaced, nOps, toggles, syncToast>>

\* saveEdit after the await, no error: toast, cancelEdit(), fetchData()
SaveResolved(c) ==
    /\ c \in calls
    /\ c.op = "save"
    /\ calls' = calls \ {c}
    /\ store' = SetText(c.kind, c.id, c.text)
    /\ syncToast' = ToastUpdated
    /\ ClearCursor
    /\ FetchData
    /\ UNCHANGED <<captureVars, authUser, refreshTrigger>>
    /\ UNCHANGED <<shown, nOps, toggles, nFailures>>

\* saveEdit after the await, error: throw, catch, toast
SaveFailed(c) ==
    /\ c \in calls
    /\ c.op = "save"
    /\ nFailures < MaxFailures
    /\ nFailures' = nFailures + 1
    /\ calls' = calls \ {c}
    /\ syncToast' = ToastUpdateFailed
    /\ UNCHANGED <<captureVars, authUser, signalVars>>
    /\ UNCHANGED <<shown, editingId, editingType, editValue, replaced, nOps, toggles, store>>

\* deleteItem after the await, no error: toast, fetchData()
DeleteResolved(c) ==
    /\ c \in calls
    /\ c.op = "delete"
    /\ calls' = calls \ {c}
    /\ store' = DeleteRow(c.kind, c.id)
    /\ syncToast' = ToastDeleted
    /\ FetchData
    /\ UNCHANGED <<captureVars, authUser, refreshTrigger>>
    /\ UNCHANGED <<shown, editingId, editingType, editValue, replaced, nOps, toggles, nFailures>>

\* deleteItem after the await, error: throw, catch, toast
DeleteFailedReloads(c) ==
    /\ c \in calls
    /\ c.op = "delete"
    /\ nFailures < MaxFailures
    /\ nFailures' = nFailures + 1
    /\ calls' = calls \ {c}
    /\ syncToast' = ToastDeleteFailed
    /\ FetchData
    /\ UNCHANGED <<captureVars, authUser, refreshTrigger>>
    /\ UNCHANGED <<shown, editingId, editingType, editValue, replaced, nOps, toggles, store>>
DeleteFailed(c) ==
    /\ c \in calls
    /\ c.op = "delete"
    /\ nFailures < MaxFailures
    /\ nFailures' = nFailures + 1
    /\ calls' = calls \ {c}
    /\ syncToast' = ToastDeleteFailed
    /\ UNCHANGED <<captureVars, authUser, signalVars>>
    /\ UNCHANGED <<shown, editingId, editingType, editValue, replaced, nOps, toggles, store>>

\* the refresh signal changes (a journal entry was processed: section 2 of
\* the specification): the effect on refreshTrigger calls fetchData
RefreshSignal ==
    /\ MayStart
    /\ nOps' = nOps + 1
    /\ OnProcessed
    /\ UNCHANGED <<captureVars, authUser>>
    /\ UNCHANGED <<shown, editingId, editingType, editValue, replaced, calls, toggles, nFailures,
                   syncToast, store>>

NextSync ==
    \/ \E f \in fetches : FetchGetUser(f)
    \/ \E f \in fetches : FetchServe(f)
    \/ \E f \in fetches : FetchApply(f)
    \/ \E r \in ShownRows("tasks") : ToggleTask(r)
    \/ \E k \in Kinds : \E r \in ShownRows(k) : StartEdit(k, r)
    \/ \E v \in EditTexts : EditType(v)
    \/ CancelEdit
    \/ SaveEdit
    \/ \E k \in Kinds : \E r \in ShownRows(k) : DeleteItem(k, r)
    \/ \E c \in calls : ToggleResolved(c)
    \/ \E c \in calls : SaveResolved(c)
    \/ \E c \in calls : SaveFailed(c)
    \/ \E c \in calls : DeleteResolved(c)
    \/ \E c \in calls : DeleteFailed(c)
    \/ RefreshSignal

\* the panels of a user who is and stays signed in
InitSync == Init /\ authUser = "u1"

SpecSync == InitSync /\ [][NextSync]_vars

(***************************************************************************)
(* The panels used for editing and deleting: the same handlers, with at    *)
(* most one reload and at most one update or delete in flight at a time    *)
(* (an answer of the store that would start a second reload arrives after  *)
(* the running one has been applied).                                      *)
(***************************************************************************)
OneOfEach == Cardinality(fetches') <= 1 /\ Cardinality(calls') <= 1

NextEdit ==
    \/ \E f \in fetches : FetchGetUser(f)
    \/ \E f \in fetches : FetchServe(f)
    \/ \E f \in fetches : FetchApply(f)
    \/ \E k \in Kinds : \E r \in ShownRows(k) : StartEdit(k, r)
    \/ \E v \in EditTexts : EditType(v)
    \/ CancelEdit
    \/ SaveEdit
    \/ \E k \in Kinds : \E r \in ShownRows(k) : DeleteItem(k, r)
    \/ \E c \in calls : SaveResolved(c)
    \/ \E c \in calls : SaveFailed(c)
    \/ \E c \in calls : DeleteResolved(c)
    \/ \E c \in calls : DeleteFailed(c)

SpecEdit == InitSync /\ [][NextEdit /\ OneOfEach]_vars

(***************************************************************************)
(* The panels while the user signs in, out, or in as someone else: all     *)
(* handlers and the authentication context, with at most one reload and    *)
(* at most one update or delete in flight at a time.                       *)
(***************************************************************************)
NextAuth ==
    \/ AuthChange
    \/ NextSync

SpecAuth == Init /\ [][NextAuth /\ OneOfEach]_vars

(***************************************************************************)
(* Properties of the Capture Coordinator.                                  *)
(***************************************************************************)
\* empty or whitespace-only, said without String.prototype.trim
WhitespaceOnly(t) == \A i \in 1..Len(t) : t[i] \in Whitespace

SubmitIds(S) == {p.id : p \in S}

\* the call p of handleSubmit ends in this step and process-journal accepted nothing
SubmitEndsUnaccepted(p) ==
    /\ p.id \notin SubmitIds(submits')
    /\ extractAccepted' = extractAccepted

\* C1: for every recording session the microphone is released exactly once
\* on every exit path: no stream is stopped twice, and a stream that is live
\* belongs to the recording in progress (the one stopRecording will stop) or
\* to a recording whose stop event is pending; no session has ended, in
\* success or in failure, with the device still held.
C1_MicReleasedOnEveryExit ==
    /\ \A s \in Sessions : stopCount[s] <= 1
    /\ \A s \in streamLive :
          \/ phase[s] = "recording" /\ isRecording /\ mediaRecorderRef = s
          \/ phase[s] = "stopping"

\* C4: from the stop event of a recording until transcribe-audio resolves the
\* coordinator is in Transcribing and the submit button is disabled.
C4_SubmitDisabledUntilTranscribed ==
    \A s \in Sessions :
        phase[s] \in {"reading", "invoking"} => isTranscribing /\ ~SubmitButtonEnabled

\* C5: at most one call of handleSubmit, and so at most one request to
\* process-journal, is in flight at any time.
C5_OneExtractionInFlight ==
    /\ Cardinality(submits) <= 1
    /\ Cardinality({p \in submits : p.pc = "invoke"}) <= 1

\* a second submit has its request in flight (the first one has resolved)
C5_Witness == \E p \in submits : p.pc = "invoke" /\ p.id = 2

\* C6: when a submit ends without being accepted, the text buffer equals its
\* value at the moment the submit was started (if the user has not edited it
\* meanwhile), and submit is possible again.
C6_FailedSubmitKeepsText ==
    [][\A p \in submits :
          (SubmitEndsUnaccepted(p) /\ ~p.typed) =>
              content' = p.text /\ processing' = FALSE]_vars

\* C7: in the step in which process-journal accepts a submit, the text buffer
\* becomes empty.
C7_AcceptedSubmitClearsText ==
    [][extractAccepted' # extractAccepted => content' = <<>>]_vars

\* a submit was accepted, the success notification is up, the buffer is empty
C7_Witness ==
    /\ extractAccepted = 1
    /\ toast = ToastProcessed
    /\ content = <<>>
    /\ ~processing

\* C8: a submit of empty or whitespace-only text passes no validation (no call
\* of handleSubmit goes on to getUser or process-journal), shows the validation
\* error and changes nothing else; every submit in flight carries text that
\* is not blank.
C8_BlankSubmitRejected ==
    [][/\ WhitespaceOnly(content) => nSubmits' = nSubmits
       /\ (HandleSubmit /\ WhitespaceOnly(content)) => toast' = ToastValidation
       /\ (toast' = ToastValidation /\ toast # ToastValidation) =>
             /\ WhitespaceOnly(content)
             /\ UNCHANGED <<content, processing, isRecording, isTranscribing,
                            mediaRecorderRef, phase, streamLive, stopCount, submits,
                            nSubmits, extractSent, extractAccepted>>
             /\ UNCHANGED <<authUser, signalVars, syncVars>>
       /\ \A p \in submits' : ~WhitespaceOnly(p.text)]_vars

\* whitespace-only text was submitted: the validation error is up, nothing was sent
C8_Witness ==
    /\ toast = ToastValidation
    /\ content = <<" ">>
    /\ nSubmits = 0
    /\ extractSent = 0

\* C9: the refresh signal counts exactly the submits process-journal
\* accepted, and fetchData was called once on mount and once per change of
\* the signal, each call starting a reload.
C9_SignalPerAcceptedSubmit ==
    /\ refreshTrigger = extractAccepted
    /\ fetchCalls = refreshTrigger + 1
    /\ \A i \in 1..fetchCalls : \E f \in fetches : f.id = i

\* two submits have ended, one accepted and one not: the signal was emitted once
C9_Witness ==
    /\ nSubmits = 2
    /\ submits = {}
    /\ extractAccepted = 1
    /\ refreshTrigger = 1

\* C10 as stated: a transcription that succeeds with text B sets the buffer
\* to A \n\n B when it held non-empty A, and to B when it was empty.
C10_TranscriptAppended ==
    [][\A s \in Sessions, B \in Transcripts :
          TranscribeResolved(s, B) =>
              content' = IF content # <<>> THEN content \o Separator \o B ELSE B]_vars

\* C10 amended: so it is for non-empty B; an empty B leaves the buffer as it is.
C10_NonEmptyTranscriptAppended ==
    [][\A s \in Sessions, B \in Transcripts :
          TranscribeResolved(s, B) =>
              content' = IF B = <<>> THEN content
                         ELSE IF content # <<>> THEN content \o Separator \o B
                         ELSE B]_vars

\* text "b" was transcribed into a buffer that held "a"
C10_Witness ==
    /\ content = <<"a">> \o Separator \o <<"b">>
    /\ toast = ToastTranscribed

\* C11: when the transcribe-audio call fails, the failure is caught and shown
\* as a notification (it is not an unhandled rejection), the text buffer is
\* unchanged, the component is not transcribing, and no transcription
\* request is sent by that step.
C11_TranscribeFailureSurfaced ==
    [][\A s \in Sessions :
          TranscribeFailed(s) =>
              /\ phase'[s] # "rejected"
              /\ toast' = ToastTranscribeFailed
              /\ content' = content
              /\ ~isTranscribing'
              /\ \A q \in Sessions : phase'[q] = "invoking" => phase[q] = "invoking"]_vars

(***************************************************************************)
(* Properties of the Insight Synchronizer.                                 *)
(***************************************************************************)
\* no remote call of the panels is in flight
Quiescent == calls = {} /\ fetches = {}

InitialCompleted(t) == (CHOOSE r \in InitialStore["tasks"] : r.id = t).completed

\* C2: after two toggles of one task and nothing else, with no failing remote
\* call and nothing left in flight, the task's completed flag in the store is
\* its original value and fetchData has run twice (after the one on mount).
C2_DoubleToggleRestores ==
    \A t \in TaskIds :
        (toggles[t] = 2 /\ nOps = 2 /\ nFailures = 0 /\ Quiescent) =>
            /\ \A r \in store["tasks"] : r.id = t => r.completed = InitialCompleted(t)
            /\ fetchCalls = 3

\* C3: once no remote call is in flight (and none has failed), each of the
\* four collections on screen is what its select returns for the user.
C3_QuiescentShownEqualsStore ==
    (Quiescent /\ nFailures = 0) =>
        \A k \in Kinds : shown[k] = Query(store, k, authUser)

\* the cursor is on a record and moves to another one
CursorMoves == editingId # 0 /\ editingId' # 0 /\ editingId' # editingId

\* C12: when the cursor is on a record X and an edit begins on another record
\* Y, the cursor is on Y with the text Y is displayed with as buffer, no
\* remote call is sent and no row of the store changes.
C12_BeginEditReplacesCursor ==
    [][CursorMoves =>
          /\ editingType' \in Kinds
          /\ \E r \in ShownRows(editingType') : r.id = editingId' /\ editValue' = r.text
          /\ calls' = calls
          /\ fetches' = fetches
          /\ store' = store]_vars

\* the cursor was on another record, whose buffer held typed text or not, and
\* is now on event 3; nothing was sent
C12_Witness ==
    /\ replaced
    /\ editingId = 3 /\ editingType = "calendar_events" /\ editValue = "x"
    /\ calls = {} /\ nOps = 0 /\ store = InitialStore

\* the cursor is None, or one (kind, id, buffer)
CursorWellFormed ==
    /\ editingId = 0 <=> editingType = "null"
    /\ editingId = 0 => editValue = ""
    /\ editingType \in Kinds \cup {"null"}

\* the three ways the cursor's record changes
CursorBegins ==
    /\ editingId' # 0 /\ editingType' \in Kinds
    /\ \E r \in ShownRows(editingType') : r.id = editingId'
    /\ calls' = calls /\ fetches' = fetches /\ store' = store
CursorCancelled ==
    /\ editingId' = 0 /\ editingType' = "null" /\ editValue' = ""
    /\ calls' = calls /\ fetches' = fetches /\ store' = store
CursorSaved ==
    /\ editingId' = 0 /\ editingType' = "null" /\ editValue' = ""
    /\ \E c \in calls : c.op = "save" /\ calls' = calls \ {c} /\ syncToast' = ToastUpdated

CursorStep ==
    /\ (<<editingId, editingType>>' # <<editingId, editingType>>) =>
          (CursorBegins \/ CursorCancelled \/ CursorSaved)
    /\ \A c \in calls : SaveFailed(c) => UNCHANGED <<editingId, editingType, editValue>>
    /\ \A c \in calls : SaveResolved(c) => (editingId' = 0 /\ editingType' = "null")

\* C13: the cursor is None or one (kind, id, buffer) in every state; its
\* record changes only by a begin of an edit, a cancel (no remote call) and
\* a save that succeeded (to None); a save that failed leaves the cursor and
\* its buffer as they were, and a save that succeeded leaves no cursor.
C13_CursorStateMachine == []CursorWellFormed /\ [][CursorStep]_vars

\* a save of task 1 with buffer "y" failed: the cursor and the buffer are kept
C13_Witness ==
    /\ syncToast = ToastUpdateFailed /\ nFailures = 1 /\ calls = {}
    /\ editingId = 1 /\ editingType = "tasks" /\ editValue = "y"
    /\ \A r \in store["tasks"] : r.text = "x"

\* the update calls a step sends
NewSaves == {c \in calls' \ calls : c.op = "save"}

\* the rows of table k after an update of row id of table kind to text
RowsAfterSave(k, kind, id, text) ==
    {IF k = kind /\ r.id = id THEN [r EXCEPT !.text = text] ELSE r : r \in store[k]}

SaveStep ==
    /\ NewSaves # {} =>
          /\ editingId # 0 /\ editingType \in Kinds
          /\ Cardinality(calls' \ calls) = 1
          /\ fetches' = fetches /\ store' = store
          /\ \A c \in NewSaves :
                /\ c.kind = editingType /\ c.id = editingId /\ c.text = editValue
                /\ c.kind \in {"tasks", "calendar_events"} => c.column = "title"
                /\ c.kind \in {"notes", "health_mentions"} => c.column = "content"
    /\ \A c \in calls : SaveResolved(c) =>
          \A k \in Kinds : store'[k] = RowsAfterSave(k, c.kind, c.id, c.text)
    /\ \A c \in calls : SaveFailed(c) => store' = store

\* C14: a save with cursor (kind, id, buffer) sends one update, to the table
\* of that kind and filtered by that id, which sets the kind's text column
\* (title for tasks and calendar events, content for notes and health
\* mentions) to the buffer; when the store runs it no other table, row or
\* column changes; no update is sent without a cursor.
C14_SaveWritesOneField == [][SaveStep]_vars

\* note 4 was saved with buffer "y": its content is "y", all else is as before
C14_Witness ==
    /\ syncToast = ToastUpdated /\ calls = {}
    /\ \A k \in Kinds : store[k] = {IF r.id = 4 THEN [r EXCEPT !.text = "y"] ELSE r :
                                        r \in InitialStore[k]}

Ids(rows) == {r.id : r \in rows}
SeqIds(seq) == {seq[i].id : i \in 1..Len(seq)}

\* the reloads a step gets answered by the store
NewlyServed == {f \in fetches' : f.pc = "served" /\ f \notin fetches}

DeleteStep ==
    /\ \A c \in calls : DeleteResolved(c) =>
          \A k \in Kinds :
              store'[k] = IF k = c.kind THEN {r \in store[k] : r.id # c.id} ELSE store[k]
    \* a row that is gone stays gone
    /\ \A k \in Kinds : Ids(store'[k]) \subseteq Ids(store[k])
    \* a reload answered now holds the rows the store has now
    /\ \A f \in NewlyServed : \A k \in Kinds :
          f.res[k].st = "ok" =>
              /\ f.res[k].rows = Query(store, k, f.user)
              /\ SeqIds(f.res[k].rows) \subseteq Ids(store[k])

\* C15: a delete of record (kind, id) that succeeds removes that row and no
\* other row of any table; the row does not come back, and every reload the
\* store answers afterwards holds, for each kind, the user's rows the store
\* has at that time: not the deleted record, and all the others.
C15_DeleteRemovesOneRecord == [][DeleteStep]_vars

\* task 1 was deleted and a later reload is on screen: task 2 is displayed,
\* the other three panels hold what they held
C15_Witness ==
    /\ syncToast = ToastDeleted /\ calls = {} /\ fetches = {} /\ nFailures = 0
    /\ Ids(store["tasks"]) = {2, 6}
    /\ SeqIds(shown["tasks"]) = {2}
    /\ \A k \in Kinds \ {"tasks"} :
          store[k] = InitialStore[k] /\ shown[k] = Query(InitialStore, k, "u1")

\* C16: when a delete fails, the failure is shown as a notification, and the
\* store, the four displayed collections and the edit cursor keep their
\* values; no reload is started.
C16_FailedDeleteChangesNothing ==
    [][\A c \in calls :
          DeleteFailed(c) =>
              /\ syncToast' = ToastDeleteFailed
              /\ store' = store
              /\ shown' = shown
              /\ <<editingId, editingType, editValue>>' = <<editingId, editingType, editValue>>
              /\ fetches' = fetches /\ fetchCalls' = fetchCalls
              /\ calls' = calls \ {c}]_vars

\* the delete of task 1 failed while note 4 was being edited with buffer "y":
\* the task is in the store and on screen, the cursor is on the note, and
\* only the reload of the mount has run
C16_Witness ==
    /\ syncToast = ToastDeleteFailed /\ calls = {} /\ fetches = {} /\ fetchCalls = 1
    /\ store = InitialStore
    /\ \A k \in Kinds : shown[k] = Query(InitialStore, k, "u1")
    /\ editingId = 4 /\ editingType = "notes" /\ editValue = "y"

\* the updates and deletes a step sends, and the reloads whose selects it sends
NewCalls == calls' \ calls
NewQueries == {f \in fetches' : f.pc = "querying" /\ f \notin fetches}

\* C17: every update and delete that is sent names a record owned by the
\* user who is signed in when it is sent, and every select that is sent
\* asks for the rows of that user.
C17_CallsInScopeOfCurrentUser ==
    [][/\ \A c \in NewCalls :
             /\ authUser # NoUser
             /\ \A r \in store[c.kind] : r.id = c.id => r.owner = authUser
       /\ \A f \in NewQueries : f.user = authUser /\ authUser # NoUser]_vars

\* a call of fetchData that finds no user ends without query and notification
SilentAbort ==
    \A f \in fetches :
        (FetchGetUser(f) /\ authUser = NoUser) =>
            /\ fetches' = fetches \ {f}
            /\ syncToast' = syncToast /\ toast' = toast
            /\ shown' = shown /\ store' = store

\* C18: a reload that finds no signed-in user sends no query and shows no
\* notification, and while no user is signed in the four displayed
\* collections are empty.
C18_NoUserEmptyPanels ==
    /\ [][SilentAbort]_vars
    /\ [](authUser = NoUser => \A k \in Kinds : shown[k] = <<>>)

\* the reloads whose answers a step hands to the component
NewlyApplied == {f \in fetches : f.pc = "served" /\ f \notin fetches'}

\* C19: when the answers of a reload arrive, each panel whose select failed
\* keeps the value it had and each panel whose select succeeded is set to
\* the rows of its own answer.
C19_FailedFetchKeepsItsPanel ==
    [][\A f \in NewlyApplied : \A k \in Kinds :
          /\ f.res[k].st = "error" => shown'[k] = shown[k]
          /\ f.res[k].st = "ok" => shown'[k] = f.res[k].rows]_vars

\* the select on tasks of the first reload failed: the task panel is still
\* empty although the store has tasks of the user, the other three panels
\* show their rows
C19_Witness ==
    /\ fetches = {} /\ fetchCalls = 1 /\ nFailures = 1
    /\ shown["tasks"] = <<>> /\ Query(store, "tasks", "u1") # <<>>
    /\ \A k \in Kinds \ {"tasks"} : shown[k] = Query(store, k, "u1") /\ shown[k] # <<>>

\* a recording that was stopped and whose transcription has not ended
Transcribing(s) == phase[s] \in {"stopping", "reading", "invoking"}

\* C20: if every remote call resolves, a submit in progress ends (processing
\* is reset) and the transcription of a stopped recording ends, whatever
\* the outcome; the record control, disabled by isTranscribing or
\* processing, is enabled again and again, and the submit control is kept
\* disabled only by a recording the user has not stopped.
C20_AlwaysBackToIdle ==
    /\ processing ~> ~processing
    /\ isTranscribing ~> ~isTranscribing
    /\ \A s \in Sessions : Transcribing(s) ~> ~Transcribing(s)
    /\ []<>RecordButtonEnabled
    /\ []<>(isRecording \/ SubmitButtonEnabled)

\* a submit ended with a failure of process-journal and a transcription ended
\* with a failure of transcribe-audio: nothing is pending and both controls
\* are enabled
C20_Witness ==
    /\ toast = ToastProcessFailed /\ extractSent = 1 /\ extractAccepted = 0
    /\ \E s \in Sessions : phase[s] = "rejected"
    /\ submits = {} /\ \A s \in Sessions : ~Transcribing(s)
    /\ RecordButtonEnabled /\ SubmitButtonEnabled

\* C21: when a save started on record X succeeds while the cursor is on
\* another record Y, the cursor stays on Y with Y's buffer; the save clears
\* the cursor only if it is still on X.
C21_SaveClearsOnlyItsOwnCursor ==
    [][\A c \in calls :
          (SaveResolved(c) /\ editingId # 0 /\ editingId # c.id) =>
              <<editingId, editingType, editValue>>' = <<editingId, editingType, editValue>>]_vars

\* C22: whenever no remote call is in flight, a cursor that is set is on a
\* record displayed in the panel of its kind, so the row with the edit
\* field and its Save and Cancel buttons is on screen.
C22_CursorOnDisplayedRecord ==
    (Quiescent /\ editingId # 0) => EditFieldShown

(***************************************************************************)
(* Transcribed text and the submit in flight.                              *)
(***************************************************************************)
\* C23: no transcribed text is lost.  The buffer loses text only when the
\* user types and when an accepted submit clears it; if the user has not
\* typed since the submit, the text that is cleared is the text that was
\* sent to process-journal, so a transcript appended meanwhile was sent.
C23_ClearedTextWasSent ==
    [][\A p \in submits :
          (/\ p.pc = "invoke" /\ p.id \notin SubmitIds(submits')
           /\ extractAccepted' # extractAccepted
           /\ ~p.typed) =>
              content = p.text]_vars

====
